---- MODULE Spec2Model ----
(***************************************************************************)
(* A model of src/index.ts of byrdocs/bupt-auth: the login state machine   *)
(* (login, getCookieAndExecution) and the helpers refresh and getUserRoles.*)
(*                                                                         *)
(* Every call of login or refresh is an async function: it runs from one   *)
(* await to the next without interruption.  An action of the model is one  *)
(* such run: the response of the pending request arrives, the code after   *)
(* the await runs, and either the next request is issued or the promise is *)
(* settled.  The servers and the onCaptcha callback are the environment:   *)
(* what they answer is drawn from the sets of responses below.             *)
(*                                                                         *)
(* Each call keeps an event log (requests issued, responses received) next *)
(* to the variables of the code; the properties are stated on the log and  *)
(* on the settled promise.                                                 *)
(***************************************************************************)
EXTENDS Integers, Sequences, FiniteSets, TLC

VARIABLES call, wide

vars == <<call, wide>>

(***************************************************************************)
(* Bounds of the model.                                                    *)
(***************************************************************************)
\* the largest ocr.maxRetries a caller configures
MaxRetriesOpt == 3
\* the longest role list the role-listing endpoint answers
MaxRoles == 2

(***************************************************************************)
(* JavaScript values.                                                      *)
(***************************************************************************)
\* undefined / null of a string-valued expression
Undefined == "undefined"

\* the truthiness test of `if (s)`, `!s`, `s ? a : b` on a string or undefined
Truthy(s) == s # Undefined /\ s # ""

\* an Error object: its class, the number in its message (or a tag), the
\* HTTP status and the server text the message embeds
Err(name, code, status, detail) ==
    [name |-> name, code |-> code, status |-> status, detail |-> detail]

NoError == Err(Undefined, Undefined, 0, Undefined)

LoginError(code, status, detail) == Err("LoginError", code, status, detail)

OCRError(detail) == Err("OCRError", "ocr", 0, detail)

\* res.ok
Ok(status) == status >= 200 /\ status <= 299

(***************************************************************************)
(* The Role enum and the UserInfo and RoleInfo types.                      *)
(***************************************************************************)
Role == {"Student", "Teacher", "Assistant"}

NoUserInfo ==
    [access_token |-> Undefined, refresh_token |-> Undefined, user_name |-> Undefined]

UserInfo ==
    { [access_token |-> "at1", refresh_token |-> "rt1", user_name |-> "u1"],
      [access_token |-> "at2", refresh_token |-> "rt2", user_name |-> "u1"] }

RoleInfo ==
    { [id |-> "r1", roleName |-> "Student"],
      [id |-> "r2", roleName |-> "Teacher"],
      [id |-> "r3", roleName |-> "Teacher"] }

\* the role lists of at most MaxRoles roles, each role at most once
RoleLists ==
    { s \in UNION { [1..n -> RoleInfo] : n \in 0..MaxRoles } :
        \A i, j \in DOMAIN s : s[i].id = s[j].id => i = j }

(***************************************************************************)
(* The environment: what a server or the callback may answer.  A rejected  *)
(* await (fetch or the reading of the body failed, the callback threw) is  *)
(* [kind |-> "reject", err |-> the error thrown].  With wide = FALSE (the  *)
(* specification of concurrent calls) each set holds one response per      *)
(* branch of the code that reads it.                                       *)
(***************************************************************************)
FetchFailed == [kind |-> "reject", err |-> Err("TypeError", "fetch", 0, "fetch failed")]

\* GET of the login page: the Set-Cookie header split at ";" (<<>>: no
\* header), the value of <input name="execution" value="..."> (Undefined: the
\* pattern does not match) and the id of the config.captcha block
Page(setCookie, execution, captchaId) ==
    [kind |-> "http", setCookie |-> setCookie, execution |-> execution,
     captchaId |-> captchaId]

SessionCookie == <<"JSESSIONID=s1", "Path=/">>

PageResponses ==
    IF wide
    THEN { Page(<<>>, "e1", Undefined), Page(<<>>, "e1", "cap1"),
           Page(<<"">>, "e1", "cap1"), Page(<<"", "Path=/">>, "e1", Undefined),
           Page(SessionCookie, Undefined, Undefined), Page(SessionCookie, Undefined, "cap1"),
           Page(SessionCookie, "e1", Undefined), Page(SessionCookie, "", Undefined),
           Page(SessionCookie, "e1", ""), Page(SessionCookie, "e1", "cap1"),
           FetchFailed }
    ELSE { Page(<<>>, "e1", Undefined), Page(SessionCookie, "e1", Undefined),
           Page(SessionCookie, "e1", "cap1") }

\* the onCaptcha callback: the text it resolves to, or what it throws
CallbackResponses ==
    IF wide
    THEN [kind : {"return"}, text : {"", "t1"}]
         \cup {[kind |-> "reject", err |-> Err("Error", "callback", 0, "gave up")]}
    ELSE [kind : {"return"}, text : {"t1"}]

\* GET of the OCR endpoint: the text and detail fields of its JSON
OcrResponses ==
    IF wide
    THEN { [kind |-> "http", text |-> "t1", detail |-> Undefined],
           [kind |-> "http", text |-> "", detail |-> Undefined],
           [kind |-> "http", text |-> Undefined, detail |-> "bad token"], FetchFailed }
    ELSE { [kind |-> "http", text |-> "t1", detail |-> Undefined],
           [kind |-> "http", text |-> Undefined, detail |-> "bad token"], FetchFailed }

\* POST of the credentials: the status, the text of the alert-danger block
\* (Undefined: no block) and the Location header: none, empty, a relative
\* reference (new URL throws on it) or an absolute URL, with the value of
\* its ticket query parameter (Undefined: no such parameter)
SubmitResponses ==
    IF wide
    THEN [kind : {"http"}, status : {401},
          message : {Undefined, "", "Invalid credentials.", "Account locked."},
          locKind : {"none"}, locTicket : {Undefined}]
         \cup [kind : {"http"}, status : {200, 500},
               message : {Undefined, "Account locked."},
               locKind : {"none"}, locTicket : {Undefined}]
         \cup [kind : {"http"}, status : {302}, message : {Undefined},
               locKind : {"none", "empty"}, locTicket : {Undefined}]
         \cup [kind : {"http"}, status : {302}, message : {Undefined},
               locKind : {"relative", "absolute"}, locTicket : {Undefined, "", "T1"}]
         \cup {FetchFailed}
    ELSE { [kind |-> "http", status |-> 401, message |-> "Invalid credentials.",
            locKind |-> "none", locTicket |-> Undefined],
           [kind |-> "http", status |-> 302, message |-> Undefined,
            locKind |-> "absolute", locTicket |-> "T1"] }

\* POST to the OAuth token endpoint with grant_type=third
TicketResponses ==
    IF wide
    THEN [kind : {"http"}, status : {200},
          userInfo : {u \in UserInfo : u.refresh_token = "rt1"}]
         \cup {[kind |-> "http", status |-> 500, userInfo |-> NoUserInfo], FetchFailed}
    ELSE { [kind |-> "http", status |-> 200,
            userInfo |-> [access_token |-> "at1", refresh_token |-> "rt1", user_name |-> "u1"]],
           [kind |-> "http", status |-> 500, userInfo |-> NoUserInfo] }

\* POST to the OAuth token endpoint with grant_type=refresh_token
RefreshResponses ==
    IF wide
    THEN [kind : {"http"}, status : {200},
          userInfo : {u \in UserInfo : u.refresh_token = "rt2"}]
         \cup {[kind |-> "http", status |-> 500, userInfo |-> NoUserInfo], FetchFailed}
    ELSE { [kind |-> "http", status |-> 200,
            userInfo |-> [access_token |-> "at2", refresh_token |-> "rt2", user_name |-> "u1"]],
           [kind |-> "http", status |-> 500, userInfo |-> NoUserInfo] }

\* GET of the role listing: the data field of its JSON envelope
\* (hasData = FALSE: the envelope has none)
RolesResponses ==
    IF wide
    THEN [kind : {"http"}, status : {200}, hasData : {TRUE}, data : RoleLists]
         \cup { [kind |-> "http", status |-> 200, hasData |-> FALSE, data |-> <<>>],
                [kind |-> "http", status |-> 403, hasData |-> FALSE, data |-> <<>>],
                FetchFailed }
    ELSE [kind : {"http"}, status : {200}, hasData : {TRUE},
          data : { <<>>,
                   <<[id |-> "r1", roleName |-> "Student"]>>,
                   <<[id |-> "r2", roleName |-> "Teacher"]>> }]

(***************************************************************************)
(* One call.  Its fields are the arguments, the local variables of the     *)
(* code, the await it is suspended at (pc), the event log and the promise. *)
(***************************************************************************)
\* LoginOptions: role (Undefined: not given), whether onCaptcha and ocr are
\* given, and ocr.maxRetries (hasMaxRetries = FALSE: omitted)
LoginOptions ==
    [role : {Undefined, "Teacher"}, onCaptcha : BOOLEAN, ocr : BOOLEAN,
     hasMaxRetries : {FALSE}, maxRetries : {0}]
    \cup [role : {Undefined, "Teacher"}, onCaptcha : {FALSE}, ocr : {TRUE},
          hasMaxRetries : {TRUE}, maxRetries : 0..MaxRetriesOpt]

NoOptions ==
    [role |-> Undefined, onCaptcha |-> FALSE, ocr |-> FALSE,
     hasMaxRetries |-> FALSE, maxRetries |-> 0]

\* a call before it is made
NewCall(kind, options, refresh_token, role) ==
    [kind |-> kind, options |-> options, refresh_token |-> refresh_token, role |-> role,
     pc |-> "idle", cookie |-> Undefined, execution |-> Undefined,
     capthas_id |-> Undefined, captcha |-> Undefined,
     maxRetries |-> 0, attempt |-> 0, lastError |-> NoError,
     ticket |-> Undefined, userInfo |-> NoUserInfo, roles |-> <<>>,
     log |-> <<>>, settled |-> "pending", value |-> NoUserInfo, error |-> NoError]

\* a request, as the log records it: the endpoint and the parameters sent
Req(to) ==
    [ev |-> "req", to |-> to, cookie |-> Undefined, execution |-> Undefined,
     captcha |-> Undefined, captchaId |-> Undefined, ticket |-> Undefined,
     token |-> Undefined, identity |-> Undefined]

\* fetch(...) or the callback is called and awaited
Send(c, req, pc) == [c EXCEPT !.log = Append(@, req), !.pc = pc]

\* the awaited promise settles with res
Receive(c, res) == [c EXCEPT !.log = Append(@, [ev |-> "res", at |-> c.pc, res |-> res])]

\* throw e: nothing in login or refresh catches, the promise is rejected
Throw(c, e) == [c EXCEPT !.pc = "failed", !.settled = "rejected", !.error = e]

\* return v
Return(c, v) == [c EXCEPT !.pc = "done", !.settled = "fulfilled", !.value = v]

(***************************************************************************)
(* getUserRoles and refresh.  refresh is called by the caller (c.kind =    *)
(* "refresh") or as the last stage of login (c.kind = "login"), with       *)
(* c.refresh_token and c.role as its arguments.                            *)
(***************************************************************************)
\* what `await getUserRoles(token)` evaluates to when the fetch answers res:
\* a throw, or the data field of the JSON
getUserRoles(res) ==
    IF res.kind = "reject"
    THEN [threw |-> TRUE, err |-> res.err, hasData |-> FALSE, data |-> <<>>]
    ELSE IF ~Ok(res.status)
    THEN [threw |-> TRUE, err |-> LoginError("roles", res.status, Undefined),
          hasData |-> FALSE, data |-> <<>>]
    ELSE [threw |-> FALSE, err |-> NoError, hasData |-> res.hasData, data |-> res.data]

\* ...(await refresh(...)), roles: the token bundle with the role list of login
LoginResult(json, roles) ==
    [access_token |-> json.access_token, refresh_token |-> json.refresh_token,
     user_name |-> json.user_name, roles |-> roles]

\* refreshResponse merging the bundle of the ticket exchange, not of the refresh
refreshResponseKeepsTicketBundle(c, res) ==
    IF res.kind = "reject" THEN Throw(c, res.err)
    ELSE IF ~Ok(res.status) THEN Throw(c, LoginError("refresh", res.status, Undefined))
    ELSE IF c.kind = "login" THEN Return(c, LoginResult(c.userInfo, c.roles))
    ELSE Return(c, res.userInfo)

\* the token endpoint answers the refresh exchange
refreshResponse(c, res) ==
    IF res.kind = "reject" THEN Throw(c, res.err)
    ELSE IF ~Ok(res.status) THEN Throw(c, LoginError("refresh", res.status, Undefined))
    ELSE IF c.kind = "login" THEN Return(c, LoginResult(res.userInfo, c.roles))
    ELSE Return(c, res.userInfo)

\* the POST of grant_type=refresh_token, with the identity when there is one
refreshFetch(c, identity) ==
    Send(c, [Req("token") EXCEPT !.token = c.refresh_token, !.identity = identity], "token")

\* find keeping the last role of the name, not the first
FindLast(roles, role) ==
    IF \E i \in DOMAIN roles : roles[i].roleName = role
    THEN CHOOSE i \in DOMAIN roles :
            /\ roles[i].roleName = role
            /\ \A j \in DOMAIN roles : roles[j].roleName = role => j <= i
    ELSE 0

\* roles.find(r => r.roleName === role): the index of the first match, 0 if none
Find(roles, role) ==
    IF \E i \in DOMAIN roles : roles[i].roleName = role
    THEN CHOOSE i \in DOMAIN roles :
            /\ roles[i].roleName = role
            /\ \A j \in DOMAIN roles : roles[j].roleName = role => i <= j
    ELSE 0

\* refreshRoles going on without an identity when the role is not in the list
refreshRolesDefaultsRole(c, res) ==
    LET got == getUserRoles(res) IN
    IF got.threw THEN Throw(c, got.err)
    ELSE IF ~got.hasData THEN Throw(c, Err("TypeError", "undefined", 0, "roles.find"))
    ELSE IF Find(got.data, c.role) = 0
    THEN refreshFetch(c, Undefined)
    ELSE refreshFetch(c, got.data[Find(got.data, c.role)].id)

\* the role listing asked by refresh answers
refreshRoles(c, res) ==
    LET got == getUserRoles(res) IN
    IF got.threw THEN Throw(c, got.err)
    ELSE IF ~got.hasData THEN Throw(c, Err("TypeError", "undefined", 0, "roles.find"))
    ELSE IF Find(got.data, c.role) = 0
    THEN Throw(c, LoginError("role", 0, c.role))
    ELSE refreshFetch(c, got.data[Find(got.data, c.role)].id)

\* refresh listing the roles whether or not a role is given
refreshAlwaysListsRoles(c) ==
    Send(c, [Req("roles") EXCEPT !.token = c.refresh_token], "refreshRoles")

\* refresh(refresh_token, role) up to its first await
refresh(c) ==
    IF Truthy(c.role)
    THEN Send(c, [Req("roles") EXCEPT !.token = c.refresh_token], "refreshRoles")
    ELSE refreshFetch(c, Undefined)

(***************************************************************************)
(* login, from the answer of the credential POST on.                       *)
(***************************************************************************)
\* loginRoles returning the bundle of the ticket exchange when there is no role
loginRolesReturnsPartial(c, res) ==
    LET got == getUserRoles(res) IN
    IF got.threw THEN Throw(c, got.err)
    ELSE IF ~got.hasData THEN Throw(c, Err("TypeError", "undefined", 0, "roles.length"))
    ELSE IF Len(got.data) = 0 THEN Return(c, c.userInfo)
    ELSE refresh([c EXCEPT !.roles = got.data,
                           !.refresh_token = c.userInfo.refresh_token,
                           !.role = IF c.options.role # Undefined
                                    THEN c.options.role
                                    ELSE got.data[1].roleName])

\* loginRoles without the test of roles.length: roles[0].roleName is read
\* (and throws on an empty list) only when options.role is not given
loginRolesWithoutLengthTest(c, res) ==
    LET got == getUserRoles(res) IN
    IF got.threw THEN Throw(c, got.err)
    ELSE IF ~got.hasData THEN Throw(c, Err("TypeError", "undefined", 0, "roles.length"))
    ELSE IF Len(got.data) = 0 /\ c.options.role = Undefined
    THEN Throw(c, Err("TypeError", "undefined", 0, "roles[0].roleName"))
    ELSE refresh([c EXCEPT !.roles = got.data,
                           !.refresh_token = c.userInfo.refresh_token,
                           !.role = IF c.options.role # Undefined
                                    THEN c.options.role
                                    ELSE got.data[1].roleName])

\* the role listing asked by login answers
loginRoles(c, res) ==
    LET got == getUserRoles(res) IN
    IF got.threw THEN Throw(c, got.err)
    ELSE IF ~got.hasData THEN Throw(c, Err("TypeError", "undefined", 0, "roles.length"))
    ELSE IF Len(got.data) = 0 THEN Throw(c, LoginError("8", 0, Undefined))
    ELSE refresh([c EXCEPT !.roles = got.data,
                           !.refresh_token = c.userInfo.refresh_token,
                           !.role = IF c.options.role # Undefined
                                    THEN c.options.role
                                    ELSE got.data[1].roleName])

\* ticketResponse with the role listing of login left out
ticketResponseSkipsRoles(c, res) ==
    IF res.kind = "reject" THEN Throw(c, res.err)
    ELSE IF ~Ok(res.status) THEN Throw(c, LoginError("7", res.status, Undefined))
    ELSE refresh([c EXCEPT !.userInfo = res.userInfo,
                           !.refresh_token = res.userInfo.refresh_token,
                           !.role = c.options.role])

\* the token endpoint answers the ticket exchange
ticketResponse(c, res) ==
    IF res.kind = "reject" THEN Throw(c, res.err)
    ELSE IF ~Ok(res.status) THEN Throw(c, LoginError("7", res.status, Undefined))
    ELSE Send([c EXCEPT !.userInfo = res.userInfo],
              [Req("roles") EXCEPT !.token = res.userInfo.refresh_token], "roles")

\* the error of a credential POST that did not answer 302
submitError(res) ==
    IF res.status = 401
    THEN IF Truthy(res.message)
         THEN IF res.message = "Invalid credentials."
              THEN LoginError("3", 0, Undefined)
              ELSE LoginError("4", 0, res.message)
         ELSE LoginError("2", 0, Undefined)
    ELSE LoginError("1", res.status, IF Truthy(res.message) THEN res.message ELSE Undefined)

\* submitResponse posting the credentials a second time when the first POST
\* was rejected by the network
submitResponseRetries(c, res) ==
    IF res.kind = "reject"
    THEN LET posted == SelectSeq(c.log, LAMBDA e : e.ev = "req" /\ e.to = "submit")
         IN  IF Len(posted) = 1 THEN Send(c, posted[1], "submit")
             ELSE Throw(c, res.err)
    ELSE IF res.status # 302 THEN Throw(c, submitError(res))
    ELSE IF res.locKind \in {"none", "empty"} THEN Throw(c, LoginError("5", 0, Undefined))
    ELSE IF res.locKind = "relative" THEN Throw(c, Err("TypeError", "url", 0, "Invalid URL"))
    ELSE IF ~Truthy(res.locTicket) THEN Throw(c, LoginError("6", 0, Undefined))
    ELSE Send([c EXCEPT !.ticket = res.locTicket],
              [Req("ticket") EXCEPT !.ticket = res.locTicket], "ticket")

\* the SSO server answers the credential POST
submitResponse(c, res) ==
    IF res.kind = "reject" THEN Throw(c, res.err)
    ELSE IF res.status # 302 THEN Throw(c, submitError(res))
    ELSE IF res.locKind \in {"none", "empty"} THEN Throw(c, LoginError("5", 0, Undefined))
    ELSE IF res.locKind = "relative" THEN Throw(c, Err("TypeError", "url", 0, "Invalid URL"))
    ELSE IF ~Truthy(res.locTicket) THEN Throw(c, LoginError("6", 0, Undefined))
    ELSE Send([c EXCEPT !.ticket = res.locTicket],
              [Req("ticket") EXCEPT !.ticket = res.locTicket], "ticket")

\* login after getCookieAndExecution returned: the credential POST, with the
\* captcha field when sessionData.captcha is truthy
submit(c) ==
    Send(c, [Req("submit") EXCEPT !.cookie = c.cookie, !.execution = c.execution,
                                  !.captcha = IF Truthy(c.captcha) THEN c.captcha
                                              ELSE Undefined],
         "submit")

(***************************************************************************)
(* getCookieAndExecution.  The captcha URL is the id followed by five      *)
(* random digits; the log records the id.                                  *)
(***************************************************************************)
\* the OCR endpoint is asked (one iteration of the for loop up to its await)
ocrFetch(c) ==
    Send(c, [Req("ocr") EXCEPT !.captchaId = c.capthas_id, !.cookie = c.cookie], "ocr")

\* ocrLoop that, once the attempts are used up, waits for ever instead of
\* throwing lastError
ocrLoopNeverThrows(c) ==
    IF c.attempt < c.maxRetries THEN ocrFetch(c) ELSE [c EXCEPT !.pc = "hung"]

\* the test of the for loop: another attempt, or throw lastError
ocrLoop(c) ==
    IF c.attempt < c.maxRetries THEN ocrFetch(c) ELSE Throw(c, c.lastError)

\* options.ocr.maxRetries || 3
ocrMaxRetries(options) ==
    IF options.hasMaxRetries /\ options.maxRetries # 0 THEN options.maxRetries ELSE 3

\* ocrCatch keeping the error of the first failed attempt
ocrCatchKeepsFirst(c, error) ==
    ocrLoop([c EXCEPT !.lastError = IF c.lastError = NoError THEN error ELSE c.lastError,
                      !.attempt = c.attempt + 1])

\* the catch block of the loop and attempt++ (both of its branches go on
\* with the next iteration)
ocrCatch(c, error) ==
    ocrLoop([c EXCEPT !.lastError = error, !.attempt = c.attempt + 1])

\* the OCR endpoint answers
ocrResponse(c, res) ==
    IF res.kind = "reject" THEN ocrCatch(c, res.err)
    ELSE IF ~Truthy(res.text)
    THEN ocrCatch(c, OCRError(IF res.detail # Undefined THEN res.detail
                              ELSE "Unknown error"))
    ELSE submit([c EXCEPT !.captcha = res.text])

\* onCaptchaResponse wrapping what the callback threw in a LoginError
onCaptchaResponseWraps(c, res) ==
    IF res.kind = "reject" THEN Throw(c, LoginError("captcha", 0, res.err.detail))
    ELSE submit([c EXCEPT !.captcha = res.text])

\* onCaptchaResponse going on with OCR, when it is configured, after the
\* callback threw
onCaptchaResponseFallsBack(c, res) ==
    IF res.kind = "reject"
    THEN IF c.options.ocr
         THEN ocrLoop([c EXCEPT !.maxRetries = ocrMaxRetries(c.options),
                                !.attempt = 0, !.lastError = NoError])
         ELSE Throw(c, res.err)
    ELSE submit([c EXCEPT !.captcha = res.text])

\* the onCaptcha callback settles
onCaptchaResponse(c, res) ==
    IF res.kind = "reject" THEN Throw(c, res.err)
    ELSE submit([c EXCEPT !.captcha = res.text])

\* resolveCaptcha falling through to the return without a captcha when no
\* resolver is configured
resolveCaptchaFallsThrough(c, capthas_id) ==
    IF Truthy(capthas_id)
    THEN LET d == [c EXCEPT !.capthas_id = capthas_id] IN
         IF c.options.onCaptcha
         THEN Send(d, [Req("onCaptcha") EXCEPT !.captchaId = capthas_id,
                                               !.cookie = c.cookie], "onCaptcha")
         ELSE IF c.options.ocr
         THEN ocrLoop([d EXCEPT !.maxRetries = ocrMaxRetries(c.options),
                                !.attempt = 0, !.lastError = NoError])
         ELSE submit(d)
    ELSE submit([c EXCEPT !.capthas_id = ""])

\* the branch on the captcha id: the configured resolver, or no captcha
resolveCaptcha(c, capthas_id) ==
    IF Truthy(capthas_id)
    THEN LET d == [c EXCEPT !.capthas_id = capthas_id] IN
         IF c.options.onCaptcha
         THEN Send(d, [Req("onCaptcha") EXCEPT !.captchaId = capthas_id,
                                               !.cookie = c.cookie], "onCaptcha")
         ELSE IF c.options.ocr
         THEN ocrLoop([d EXCEPT !.maxRetries = ocrMaxRetries(c.options),
                                !.attempt = 0, !.lastError = NoError])
         ELSE Throw(d, LoginError("-3", 0, Undefined))
    ELSE submit([c EXCEPT !.capthas_id = ""])

\* res.headers.get("set-cookie")?.split(";")?.[0]
firstSegment(setCookie) ==
    IF setCookie = <<>> THEN Undefined ELSE setCookie[1]

\* getCookieAndExecution testing the cookie for undefined only
getCookieAndExecutionTestsUndefined(c, res) ==
    IF res.kind = "reject" THEN Throw(c, res.err)
    ELSE IF firstSegment(res.setCookie) = Undefined
    THEN Throw(c, LoginError("-1", 0, Undefined))
    ELSE IF res.execution = Undefined THEN Throw(c, LoginError("-2", 0, Undefined))
    ELSE resolveCaptcha([c EXCEPT !.cookie = firstSegment(res.setCookie),
                                  !.execution = res.execution],
                        res.captchaId)

\* the login page answers
getCookieAndExecution(c, res) ==
    IF res.kind = "reject" THEN Throw(c, res.err)
    ELSE IF ~Truthy(firstSegment(res.setCookie))
    THEN Throw(c, LoginError("-1", 0, Undefined))
    ELSE IF res.execution = Undefined THEN Throw(c, LoginError("-2", 0, Undefined))
    ELSE resolveCaptcha([c EXCEPT !.cookie = firstSegment(res.setCookie),
                                  !.execution = res.execution],
                        res.captchaId)

\* login(username, password, options) up to its first await: the GET of the
\* login page
login(c) == Send(c, Req("page"), "page")

(***************************************************************************)
(* The state machine.                                                      *)
(***************************************************************************)
\* what happens to a suspended call when its pending await settles with res
Deliver(c, res) ==
    LET d == Receive(c, res) IN
    CASE c.pc = "page" -> getCookieAndExecution(d, res)
      [] c.pc = "onCaptcha" -> onCaptchaResponse(d, res)
      [] c.pc = "ocr" -> ocrResponse(d, res)
      [] c.pc = "submit" -> submitResponse(d, res)
      [] c.pc = "ticket" -> ticketResponse(d, res)
      [] c.pc = "roles" -> loginRoles(d, res)
      [] c.pc = "refreshRoles" -> refreshRoles(d, res)
      [] c.pc = "token" -> refreshResponse(d, res)

\* the calls a caller may make
LoginCalls == { NewCall("login", o, Undefined, Undefined) : o \in LoginOptions }

RefreshCalls ==
    { NewCall("refresh", NoOptions, "rt0", r) : r \in {Undefined, "Student", "Teacher"} }

\* the calls of the specification of concurrent calls
ConcurrentCalls ==
    { NewCall("login", [role |-> Undefined, onCaptcha |-> FALSE, ocr |-> TRUE,
                        hasMaxRetries |-> TRUE, maxRetries |-> 2], Undefined, Undefined),
      NewCall("login", [role |-> "Teacher", onCaptcha |-> TRUE, ocr |-> FALSE,
                        hasMaxRetries |-> FALSE, maxRetries |-> 0], Undefined, Undefined),
      NewCall("refresh", NoOptions, "rt0", "Student") }

\* two calls in flight at once, one response per branch of the code
ConcInit ==
    /\ wide = FALSE
    /\ call \in [{1, 2} -> ConcurrentCalls]

\* one call, every response of the environment
Init ==
    /\ wide = TRUE
    /\ call \in [{1} -> LoginCalls \cup RefreshCalls]

CallLogin ==
    \E p \in DOMAIN call :
        /\ call[p].pc = "idle" /\ call[p].kind = "login"
        /\ call' = [call EXCEPT ![p] = login(call[p])]
        /\ UNCHANGED wide

CallRefresh ==
    \E p \in DOMAIN call :
        /\ call[p].pc = "idle" /\ call[p].kind = "refresh"
        /\ call' = [call EXCEPT ![p] = refresh(call[p])]
        /\ UNCHANGED wide

\* the await of some call suspended at pc settles with one of responses
Settle(pc, responses) ==
    \E p \in DOMAIN call :
        /\ call[p].pc = pc
        /\ \E res \in responses : call' = [call EXCEPT ![p] = Deliver(call[p], res)]
        /\ UNCHANGED wide

PageResponse == Settle("page", PageResponses)

OnCaptchaResponse == Settle("onCaptcha", CallbackResponses)

\* OcrResponse with attempt and lastError declared at module level: every
\* call reads and writes the same two variables
OcrResponseSharedLoop ==
    \E p \in DOMAIN call :
        /\ call[p].pc = "ocr"
        /\ \E res \in OcrResponses :
              LET d == Deliver(call[p], res) IN
              call' = [q \in DOMAIN call |->
                         IF q = p THEN d
                         ELSE [call[q] EXCEPT !.attempt = d.attempt,
                                              !.lastError = d.lastError]]
        /\ UNCHANGED wide

OcrResponse == Settle("ocr", OcrResponses)

SubmitResponse == Settle("submit", SubmitResponses)

TicketResponse == Settle("ticket", TicketResponses)

LoginRolesResponse == Settle("roles", RolesResponses)

RefreshRolesResponse == Settle("refreshRoles", RolesResponses)

RefreshResponse == Settle("token", RefreshResponses)

Next ==
    \/ CallLogin
    \/ CallRefresh
    \/ PageResponse
    \/ OnCaptchaResponse
    \/ OcrResponse
    \/ SubmitResponse
    \/ TicketResponse
    \/ LoginRolesResponse
    \/ RefreshRolesResponse
    \/ RefreshResponse

Spec == Init /\ [][Next]_vars

SpecConc == ConcInit /\ [][Next]_vars

\* Every call that is made starts, and every request or callback a call
\* awaits is eventually answered: none of the awaits of login and refresh
\* stays pending for ever.
Completion ==
    /\ WF_vars(CallLogin)
    /\ WF_vars(CallRefresh)
    /\ WF_vars(PageResponse)
    /\ WF_vars(OnCaptchaResponse)
    /\ WF_vars(OcrResponse)
    /\ WF_vars(SubmitResponse)
    /\ WF_vars(TicketResponse)
    /\ WF_vars(LoginRolesResponse)
    /\ WF_vars(RefreshRolesResponse)
    /\ WF_vars(RefreshResponse)

SpecFair == Init /\ [][Next]_vars /\ Completion

(***************************************************************************)
(* Reading the log of a call.                                              *)
(***************************************************************************)
IsReq(e) == e.ev = "req"

\* the requests of c, in the order they were issued
Requests(c) == SelectSeq(c.log, IsReq)

\* the endpoints of the requests of c, in order
Endpoints(c) == [i \in DOMAIN Requests(c) |-> Requests(c)[i].to]

\* the requests of c to one endpoint
RequestsTo(c, to) == SelectSeq(c.log, LAMBDA e : e.ev = "req" /\ e.to = to)

\* the responses c received while suspended at pc
ResponsesAt(c, pc) == SelectSeq(c.log, LAMBDA e : e.ev = "res" /\ e.at = pc)

Sent(c, to) == RequestsTo(c, to) # <<>>

Answered(c, pc) == ResponsesAt(c, pc) # <<>>

\* the response (there is at most one) c received at pc
Answer(c, pc) == ResponsesAt(c, pc)[1].res

IsPrefix(s, t) == Len(s) <= Len(t) /\ \A i \in DOMAIN s : s[i] = t[i]

Repeat(x, n) == [i \in 1..n |-> x]

\* the endpoint a call suspended at pc waits for
EndpointAt(pc) == IF pc = "refreshRoles" THEN "roles" ELSE pc

\* the login page gave a cookie, an execution token and a captcha challenge
Bootstrapped(c) ==
    /\ Answered(c, "page")
    /\ Answer(c, "page").kind = "http"
    /\ Answer(c, "page").setCookie # <<>>
    /\ Answer(c, "page").setCookie[1] # ""
    /\ Answer(c, "page").execution # Undefined

ChallengePresent(c) == Bootstrapped(c) /\ Truthy(Answer(c, "page").captchaId)

(***************************************************************************)
(* C1: in every login call the requests are issued in the order page,      *)
(* the captcha resolver (only if a challenge is present), credential POST, *)
(* ticket exchange, role listing on the returned refresh token, refresh    *)
(* exchange (its own role listing, then the token request); each request   *)
(* is issued only after the response to the previous one, and a call that  *)
(* returns has issued all of them.                                         *)
(***************************************************************************)
\* the requests after the captcha stage
StagesAfterCaptcha == <<"submit", "ticket", "roles", "roles", "token">>

\* the complete request sequences of a login whose captcha stage is mid
LoginStages(mid) == <<"page">> \o mid \o StagesAfterCaptcha

\* the captcha stages a call may have gone through
CaptchaStages(c) ==
    IF ~ChallengePresent(c) THEN {<<>>}
    ELSE {<<"onCaptcha">>} \cup { Repeat("ocr", k) : k \in 1..Len(RequestsTo(c, "ocr")) }

C1_StagesInOrder ==
    \A p \in DOMAIN call :
        LET c == call[p] IN
        c.kind = "login" =>
            /\ \E mid \in CaptchaStages(c) :
                  /\ IsPrefix(Endpoints(c), LoginStages(mid))
                  /\ c.settled = "fulfilled" => Endpoints(c) = LoginStages(mid)
            /\ \A i \in DOMAIN c.log :
                  IF i % 2 = 1 THEN c.log[i].ev = "req"
                  ELSE /\ c.log[i].ev = "res"
                       /\ EndpointAt(c.log[i].at) = c.log[i - 1].to
            /\ Sent(c, "roles") =>
                  /\ Answer(c, "ticket").kind = "http"
                  /\ RequestsTo(c, "roles")[1].token
                        = Answer(c, "ticket").userInfo.refresh_token

\* a login that went through two OCR attempts and returned
C1_Witness ==
    \E p \in DOMAIN call :
        /\ call[p].kind = "login"
        /\ call[p].settled = "fulfilled"
        /\ Len(RequestsTo(call[p], "ocr")) = 2

(***************************************************************************)
(* C2: when the login page holds a captcha challenge and neither onCaptcha *)
(* nor ocr is configured, login fails with the configuration error (-3)    *)
(* and has issued no request but the GET of the login page: the credential *)
(* POST is never issued.                                                   *)
(***************************************************************************)
NoResolver(c) ==
    c.kind = "login" /\ ChallengePresent(c) /\ ~c.options.onCaptcha /\ ~c.options.ocr

C2_NoResolverConfigured ==
    \A p \in DOMAIN call :
        NoResolver(call[p]) =>
            /\ call[p].settled = "rejected"
            /\ call[p].error = LoginError("-3", 0, Undefined)
            /\ Endpoints(call[p]) = <<"page">>

C2_Witness == \E p \in DOMAIN call : NoResolver(call[p])

(***************************************************************************)
(* C3: when the login page answers without a Set-Cookie header, or with    *)
(* one whose first ";"-delimited segment is empty, login fails with the    *)
(* no-cookie error (-1) and has issued no request but the GET: neither the *)
(* captcha resolver nor the credential POST is invoked.                    *)
(***************************************************************************)
NoCookie(c) ==
    /\ c.kind = "login"
    /\ Answered(c, "page")
    /\ Answer(c, "page").kind = "http"
    /\ \/ Answer(c, "page").setCookie = <<>>
       \/ Answer(c, "page").setCookie[1] = ""

C3_NoCookie ==
    \A p \in DOMAIN call :
        NoCookie(call[p]) =>
            /\ call[p].settled = "rejected"
            /\ call[p].error = LoginError("-1", 0, Undefined)
            /\ Endpoints(call[p]) = <<"page">>

\* a page with a challenge and an empty cookie segment, a resolver configured
C3_Witness ==
    \E p \in DOMAIN call :
        /\ NoCookie(call[p])
        /\ Answer(call[p], "page").setCookie = <<"">>
        /\ Answer(call[p], "page").captchaId = "cap1"
        /\ call[p].options.onCaptcha

(***************************************************************************)
(* C4: with the OCR strategy and maxRetries = n >= 1, at most n OCR        *)
(* requests are issued; when attempts 1..k-1 failed and attempt k          *)
(* succeeded, exactly k OCR requests were issued and the credential POST   *)
(* carries the text of attempt k; when all n attempts failed, login fails  *)
(* with the error of attempt n and no credential POST is issued.           *)
(***************************************************************************)
OcrStrategy(c) ==
    /\ c.kind = "login" /\ ChallengePresent(c)
    /\ c.options.ocr /\ ~c.options.onCaptcha

OcrSucceeded(res) == res.kind = "http" /\ res.text # Undefined /\ res.text # ""

\* e is the error the failed OCR attempt answered by res raises
OcrRaised(res, e) ==
    IF res.kind = "reject" THEN e = res.err
    ELSE /\ e.name = "OCRError"
         /\ e.detail = IF res.detail # Undefined THEN res.detail ELSE "Unknown error"

C4_OcrRetries ==
    \A p \in DOMAIN call :
        LET c == call[p]
            n == c.options.maxRetries
            a == ResponsesAt(c, "ocr")
            k == Len(RequestsTo(c, "ocr"))
        IN  (OcrStrategy(c) /\ c.options.hasMaxRetries /\ n >= 1) =>
                /\ 1 <= k /\ k <= n
                /\ \A i \in DOMAIN a :
                      OcrSucceeded(a[i].res) =>
                          /\ i = Len(a) /\ k = i
                          /\ Len(RequestsTo(c, "submit")) = 1
                          /\ RequestsTo(c, "submit")[1].captcha = a[i].res.text
                /\ (\A i \in DOMAIN a : ~OcrSucceeded(a[i].res)) =>
                      /\ ~Sent(c, "submit")
                      /\ IF Len(a) = n
                         THEN /\ k = n
                              /\ c.settled = "rejected"
                              /\ OcrRaised(a[n].res, c.error)
                         ELSE c.settled = "pending" /\ k = Len(a) + 1

\* maxRetries = 3: two attempts failed with different errors, the third succeeded
C4_Witness ==
    \E p \in DOMAIN call :
        LET a == ResponsesAt(call[p], "ocr") IN
        /\ OcrStrategy(call[p])
        /\ call[p].options.hasMaxRetries /\ call[p].options.maxRetries = 3
        /\ Len(a) = 3
        /\ a[1].res.kind = "reject"
        /\ a[2].res.kind = "http" /\ ~OcrSucceeded(a[2].res)
        /\ OcrSucceeded(a[3].res)
        /\ Sent(call[p], "submit")

(***************************************************************************)
(* C5: the answer to the credential POST is mapped to distinct errors:     *)
(* 401 with the message "Invalid credentials." gives error 3; 401 with any *)
(* other (non-empty) message gives error 4 with that message; any other    *)
(* status but 302 gives error 1 with the status; 302 without a Location    *)
(* header or without a ticket query parameter gives LoginError 5 or 6.  In *)
(* each of these cases the ticket exchange is not requested.               *)
(***************************************************************************)
SubmitAnswered(c) ==
    c.kind = "login" /\ Answered(c, "submit") /\ Answer(c, "submit").kind = "http"

C5_SubmitErrors ==
    \A p \in DOMAIN call :
        LET c == call[p]
            res == Answer(c, "submit")
        IN  SubmitAnswered(c) =>
                /\ (res.status = 401 /\ res.message = "Invalid credentials.") =>
                      c.error = LoginError("3", 0, Undefined)
                /\ (res.status = 401 /\ Truthy(res.message)
                        /\ res.message # "Invalid credentials.") =>
                      c.error = LoginError("4", 0, res.message)
                /\ res.status \notin {302, 401} =>
                      /\ c.error.name = "LoginError" /\ c.error.code = "1"
                      /\ c.error.status = res.status
                /\ (res.status = 302
                        /\ (res.locKind \in {"none", "empty"} \/ res.locTicket = Undefined)) =>
                      /\ c.error.name = "LoginError" /\ c.error.code \in {"5", "6"}
                /\ (res.status # 302 \/ res.locKind \in {"none", "empty"}
                        \/ res.locTicket = Undefined) =>
                      c.settled = "rejected" /\ ~Sent(c, "ticket")

(***************************************************************************)
(* C6: when the role list that refresh fetched for its token has no entry  *)
(* whose roleName is the role asked for, refresh fails with the            *)
(* role-not-found error and issues no request to the token endpoint.       *)
(***************************************************************************)
RoleMissing(c) ==
    /\ Answered(c, "refreshRoles")
    /\ Answer(c, "refreshRoles").kind = "http"
    /\ Ok(Answer(c, "refreshRoles").status)
    /\ Answer(c, "refreshRoles").hasData
    /\ \A i \in DOMAIN Answer(c, "refreshRoles").data :
          Answer(c, "refreshRoles").data[i].roleName # c.role

C6_RoleNotFound ==
    \A p \in DOMAIN call :
        RoleMissing(call[p]) =>
            /\ call[p].settled = "rejected"
            /\ call[p].error = LoginError("role", 0, call[p].role)
            /\ ~Sent(call[p], "token")

\* refresh(token, Student) called by the caller, the list holds teachers only
C6_Witness ==
    \E p \in DOMAIN call :
        /\ call[p].kind = "refresh" /\ call[p].role = "Student"
        /\ RoleMissing(call[p])
        /\ Len(Answer(call[p], "refreshRoles").data) = 2

(***************************************************************************)
(* C7: a login that meets no captcha and whose backends all answer with    *)
(* success is not rejected, and once the refresh exchange is answered with *)
(* success login returns a result whose roles are the non-empty role list  *)
(* that login fetched after the ticket exchange and whose token and        *)
(* identity fields are those of the bundle the refresh exchange returned.  *)
(***************************************************************************)
RefreshSucceeded(c) ==
    /\ c.kind = "login"
    /\ Answered(c, "token")
    /\ Answer(c, "token").kind = "http"
    /\ Ok(Answer(c, "token").status)

\* the response res that c received at pc is a success of that stage
Succeeded(c, pc, res) ==
    /\ res.kind = "http"
    /\ CASE pc = "page" ->
              /\ res.setCookie # <<>> /\ res.setCookie[1] # ""
              /\ res.execution # Undefined
              /\ ~Truthy(res.captchaId)
         [] pc = "submit" ->
              res.status = 302 /\ res.locKind = "absolute" /\ Truthy(res.locTicket)
         [] pc \in {"ticket", "token"} -> Ok(res.status)
         [] pc = "roles" -> Ok(res.status) /\ res.hasData /\ res.data # <<>>
         [] pc = "refreshRoles" ->
              /\ Ok(res.status) /\ res.hasData
              /\ \E i \in DOMAIN res.data :
                    res.data[i].roleName =
                        IF c.options.role # Undefined THEN c.options.role
                        ELSE Answer(c, "roles").data[1].roleName
         [] OTHER -> FALSE

\* no captcha was asked for and every backend answered with success so far
AllSucceeded(c) ==
    /\ c.kind = "login"
    /\ \A i \in DOMAIN c.log :
          c.log[i].ev = "res" => Succeeded(c, c.log[i].at, c.log[i].res)

C7_LoginResult ==
    \A p \in DOMAIN call :
        LET c == call[p] IN
        /\ AllSucceeded(c) => c.settled # "rejected"
        /\ RefreshSucceeded(c) =>
            /\ c.settled = "fulfilled"
            /\ DOMAIN c.value = {"access_token", "refresh_token", "user_name", "roles"}
            /\ c.value.roles = Answer(c, "roles").data
            /\ Len(c.value.roles) >= 1
            /\ c.value.access_token = Answer(c, "token").userInfo.access_token
            /\ c.value.refresh_token = Answer(c, "token").userInfo.refresh_token
            /\ c.value.user_name = Answer(c, "token").userInfo.user_name

\* no captcha; the two exchanges returned different bundles and the two
\* role listings different lists
C7_Witness ==
    \E p \in DOMAIN call :
        /\ RefreshSucceeded(call[p])
        /\ AllSucceeded(call[p])
        /\ Endpoints(call[p]) = LoginStages(<<>>)
        /\ Answer(call[p], "ticket").userInfo # Answer(call[p], "token").userInfo
        /\ Answer(call[p], "roles").data # Answer(call[p], "refreshRoles").data

(***************************************************************************)
(* C8: a login ends either fulfilled with a complete result (the bundle of *)
(* the refresh exchange and the roles) and no error, or rejected with an   *)
(* error and no result; a rejected login issued no request after the       *)
(* response it failed on, and a settled login never changes again.         *)
(***************************************************************************)
C8_Outcome(c) ==
    /\ c.settled \in {"pending", "fulfilled", "rejected"}
    /\ c.settled = "fulfilled" <=> c.pc = "done"
    /\ c.settled = "rejected" <=> c.pc = "failed"
    /\ c.settled = "fulfilled" =>
          /\ c.error = NoError
          /\ RefreshSucceeded(c)
          /\ DOMAIN c.value = {"access_token", "refresh_token", "user_name", "roles"}
          /\ Len(c.value.roles) >= 1
          /\ \E mid \in CaptchaStages(c) : Endpoints(c) = LoginStages(mid)
    /\ c.settled = "rejected" =>
          /\ c.error # NoError
          /\ c.value = NoUserInfo
          /\ c.log # <<>> /\ c.log[Len(c.log)].ev = "res"
    /\ c.settled = "pending" =>
          /\ c.error = NoError
          /\ c.value = NoUserInfo
          /\ c.log # <<>> => c.log[Len(c.log)].ev = "req"

NoRoles(c) ==
    /\ c.kind = "login"
    /\ Answered(c, "roles")
    /\ Answer(c, "roles").kind = "http"
    /\ Ok(Answer(c, "roles").status)
    /\ Answer(c, "roles").hasData
    /\ Answer(c, "roles").data = <<>>

C9_NoRole ==
    \A p \in DOMAIN call :
        NoRoles(call[p]) =>
            /\ call[p].settled = "rejected"
            /\ call[p].error = LoginError("8", 0, Undefined)
            /\ ~Sent(call[p], "token")

\* an empty role list, options.role given
C9_Witness ==
    \E p \in DOMAIN call : NoRoles(call[p]) /\ call[p].options.role = "Teacher"

(***************************************************************************)
(* C10: concurrent calls share no state.  Under every interleaving, the    *)
(* state of each call (the requests it issued, its variables, its outcome) *)
(* is the state the call reaches when it runs alone with its arguments and *)
(* receives the responses of its own log, in order.                        *)
(***************************************************************************)
\* c before it was called: its arguments only
Arguments(c) ==
    NewCall(c.kind, c.options,
            IF c.kind = "refresh" THEN c.refresh_token ELSE Undefined,
            IF c.kind = "refresh" THEN c.role ELSE Undefined)

Suspended(c) ==
    c.pc \in {"page", "onCaptcha", "ocr", "submit", "ticket", "roles", "refreshRoles", "token"}

RECURSIVE Replay(_, _)
\* the call c after its awaits settled with the responses of log, one by one
Replay(c, log) ==
    IF log = <<>> THEN c
    ELSE IF Head(log).ev = "res" /\ Suspended(c)
    THEN Replay(Deliver(c, Head(log).res), Tail(log))
    ELSE Replay(c, Tail(log))

\* the run of c alone on the responses it received
Alone(c) ==
    IF c.log = <<>> THEN Arguments(c)
    ELSE Replay(IF c.kind = "login" THEN login(Arguments(c)) ELSE refresh(Arguments(c)),
                c.log)

C10_NoSharedState == \A p \in DOMAIN call : call[p] = Alone(call[p])

\* two logins suspended in the OCR loop at once, each after a failed attempt,
\* with different errors
C10_Witness ==
    /\ DOMAIN call = {1, 2}
    /\ call[1].pc = "ocr" /\ call[2].pc = "ocr"
    /\ call[1].attempt = 1 /\ call[2].attempt = 1
    /\ call[1].lastError # call[2].lastError

(***************************************************************************)
(* C11: a login issues at most maxRetries requests to the OCR endpoint,    *)
(* for every configured maxRetries, 0 included, and at most 3 when         *)
(* maxRetries is omitted.                                                  *)
(***************************************************************************)
C11_OcrRequestBound ==
    \A p \in DOMAIN call :
        LET c == call[p] IN
        (c.kind = "login" /\ c.options.ocr) =>
            Len(RequestsTo(c, "ocr"))
                <= IF c.options.hasMaxRetries THEN c.options.maxRetries ELSE 3

(***************************************************************************)
(* C12: every credential POST carries a non-empty session cookie and a     *)
(* non-empty execution token, whatever the login page answered.            *)
(***************************************************************************)
C12_SubmitNonEmpty ==
    \A p \in DOMAIN call :
        \A i \in DOMAIN RequestsTo(call[p], "submit") :
            /\ Truthy(RequestsTo(call[p], "submit")[i].cookie)
            /\ Truthy(RequestsTo(call[p], "submit")[i].execution)

(***************************************************************************)
(* C13: with onCaptcha configured and a challenge present, the callback is *)
(* invoked exactly once, with the captcha of the page and the session      *)
(* cookie; when it throws, login fails with the very error thrown and no   *)
(* credential POST is issued.                                              *)
(***************************************************************************)
CallbackStrategy(c) ==
    c.kind = "login" /\ ChallengePresent(c) /\ c.options.onCaptcha

CallbackThrew(c) ==
    /\ CallbackStrategy(c)
    /\ Answered(c, "onCaptcha")
    /\ Answer(c, "onCaptcha").kind = "reject"

C13_CallbackOnce ==
    \A p \in DOMAIN call :
        LET c == call[p] IN
        CallbackStrategy(c) =>
            /\ Len(RequestsTo(c, "onCaptcha")) = 1
            /\ RequestsTo(c, "onCaptcha")[1].captchaId = Answer(c, "page").captchaId
            /\ RequestsTo(c, "onCaptcha")[1].cookie = Answer(c, "page").setCookie[1]
            /\ CallbackThrew(c) =>
                  /\ c.settled = "rejected"
                  /\ c.error = Answer(c, "onCaptcha").err
                  /\ ~Sent(c, "submit")

\* only onCaptcha is configured and it threw
C13_Witness ==
    \E p \in DOMAIN call : CallbackThrew(call[p]) /\ ~call[p].options.ocr

(***************************************************************************)
(* C14: in one login, whatever the responses, the credential POST is       *)
(* issued at most once and the ticket exchange is issued at most once.     *)
(***************************************************************************)
C14_NoRetry ==
    \A p \in DOMAIN call :
        call[p].kind = "login" =>
            /\ Len(RequestsTo(call[p], "submit")) <= 1
            /\ Len(RequestsTo(call[p], "ticket")) <= 1

\* a login that failed on a credential POST the network rejected
C14_Witness ==
    \E p \in DOMAIN call :
        /\ call[p].kind = "login" /\ call[p].settled = "rejected"
        /\ Answered(call[p], "submit")
        /\ Answer(call[p], "submit").kind = "reject"

StableRoles(c) ==
    /\ c.kind = "login"
    /\ Sent(c, "token")
    /\ Answer(c, "roles").data = Answer(c, "refreshRoles").data

SharedName(roles) ==
    \E i, j \in DOMAIN roles : i # j /\ roles[i].roleName = roles[j].roleName

C16_RequestedOrFirstRole ==
    \A p \in DOMAIN call :
        LET c == call[p] IN
        StableRoles(c) =>
            LET roles == Answer(c, "roles").data
                identity == RequestsTo(c, "token")[1].identity
            IN  IF c.options.role = Undefined
                THEN identity = roles[1].id
                ELSE \E i \in DOMAIN roles :
                        /\ roles[i].roleName = c.options.role
                        /\ \A j \in 1..(i - 1) : roles[j].roleName # c.options.role
                        /\ identity = roles[i].id

\* the role is omitted and the two roles of the stable list share their name
C16_Witness ==
    \E p \in DOMAIN call :
        /\ StableRoles(call[p])
        /\ call[p].options.role = Undefined
        /\ SharedName(Answer(call[p], "roles").data)

(***************************************************************************)
(* C17: refresh called without a role asks the role listing never, sends   *)
(* no identity and asks the token endpoint exactly once; refresh called    *)
(* with a role asks the role listing before the token endpoint.            *)
(***************************************************************************)
C17_RefreshRequests ==
    \A p \in DOMAIN call :
        LET c == call[p] IN
        (c.kind = "refresh" /\ c.pc # "idle") =>
            IF c.role = Undefined
            THEN /\ Endpoints(c) = <<"token">>
                 /\ Requests(c)[1].identity = Undefined
            ELSE /\ IsPrefix(Endpoints(c), <<"roles", "token">>)
                 /\ Endpoints(c) # <<>>

\* a refresh without a role that is fulfilled
C17_Witness ==
    \E p \in DOMAIN call :
        /\ call[p].kind = "refresh"
        /\ call[p].role = Undefined
        /\ call[p].settled = "fulfilled"

(***************************************************************************)
(* C18: the identity of the refresh exchange of a successful login is the  *)
(* id of a role of the roles list of the result, whatever the two role     *)
(* listings answered.                                                      *)
(***************************************************************************)
C18_IdentityInResult ==
    \A p \in DOMAIN call :
        LET c == call[p] IN
        (c.kind = "login" /\ c.settled = "fulfilled") =>
            \E i \in DOMAIN c.value.roles :
                c.value.roles[i].id = RequestsTo(c, "token")[1].identity

(***************************************************************************)
(* C19: the credential POST carries a captcha field exactly when the login *)
(* page presented a challenge, and the field is then the text the resolver *)
(* returned, the empty text of a callback included; without a challenge    *)
(* neither the callback nor the OCR endpoint is asked.                     *)
(***************************************************************************)
\* the text the resolver of c returned: the callback's, or that of the last
\* answer of the OCR endpoint
ResolverText(c) ==
    IF Answered(c, "onCaptcha") THEN Answer(c, "onCaptcha").text
    ELSE ResponsesAt(c, "ocr")[Len(ResponsesAt(c, "ocr"))].res.text

C19_CaptchaField ==
    \A p \in DOMAIN call :
        LET c == call[p] IN
        c.kind = "login" =>
            /\ ~ChallengePresent(c) => ~Sent(c, "onCaptcha") /\ ~Sent(c, "ocr")
            /\ Sent(c, "submit") =>
                  LET field == RequestsTo(c, "submit")[1].captcha IN
                  IF ChallengePresent(c)
                  THEN field # Undefined /\ field = ResolverText(c)
                  ELSE field = Undefined

(***************************************************************************)
(* C20: when a challenge is present and both onCaptcha and ocr are         *)
(* configured, only the callback is used: the OCR endpoint is never        *)
(* requested in the call, also after the callback threw.                   *)
(***************************************************************************)
BothConfigured(c) == CallbackStrategy(c) /\ c.options.ocr

C20_CallbackExcludesOcr ==
    \A p \in DOMAIN call :
        LET c == call[p] IN
        BothConfigured(c) =>
            /\ Sent(c, "onCaptcha")
            /\ ~Sent(c, "ocr")
            /\ CallbackThrew(c) => c.settled = "rejected"

\* both are configured and the callback threw
C20_Witness ==
    \E p \in DOMAIN call : BothConfigured(call[p]) /\ CallbackThrew(call[p])

====
